---- MODULE Spec2Model ----
(***************************************************************************)
(* A model of src-tauri/src/lib.rs: the two Tauri commands list_ports and  *)
(* kill_process, the text they read from lsof, ps and kill, and the report *)
(* list_ports builds from it.                                              *)
(*                                                                         *)
(* Text is modelled as sequences of character codes (32 = ' ', 58 = ':',   *)
(* 48..57 = '0'..'9', 65..90 = 'A'..'Z', 97..122 = 'a'..'z'), so that     *)
(* splitting, parsing, lower-casing, comparing and joining are computed    *)
(* and not assumed.  The standard output of lsof is modelled after         *)
(* `lines()`: a sequence of lines.                                         *)
(***************************************************************************)
EXTENDS Integers, Sequences, FiniteSets, TLC

VARIABLES
    lsof,      \* environment: what running lsof yields
    ps,        \* environment: what running ps yields, per PID queried so far
    killed,    \* environment: what running kill yielded in the last kill_process
    op,        \* the command handled last: "none", "list_ports", "kill_process"
    arg,       \* the argument of the command handled last (a PID, or 0)
    ret,       \* the value the command handled last returned
    spawned,   \* the subprocesses the command handled last started: a bag
    listed     \* <<r>>, r what the latest list_ports before the last command
               \* returned; <<>> when there was none

vars == <<lsof, ps, killed, op, arg, ret, spawned, listed>>

-----------------------------------------------------------------------------
(* Bounds of the model.                                                    *)

\* The number of lines lsof prints after its header line.
MaxLines == 2

\* The same, where kill_process and list_ports are called in turn.
MaxKillLines == 1

-----------------------------------------------------------------------------
(* Text helpers: what the standard library calls of lib.rs compute.        *)

\* A sequence given by a rule, as the sequence of its values (a Vec).
Vec(s) == s \o <<>>

\* A function given by a rule, as the table of its values (a HashMap).
Table(f) == f @@ <<>>

\* char::is_whitespace, on the characters of the model (ASCII white space).
IsWhitespace(c) == c \in {9, 10, 11, 12, 13, 32}

\* char::is_numeric: the Unicode categories Nd, Nl and No.  Below U+0100
\* these are the ASCII digits and the superscripts and fractions of Latin-1.
IsNumeric(c) == c \in (48..57) \cup {178, 179, 185, 188, 189, 190}

\* str::split_whitespace: the maximal runs of non-white-space characters.
RECURSIVE SplitWs(_, _, _)
SplitWs(s, cur, acc) ==
    IF s = <<>>
    THEN IF cur = <<>> THEN acc ELSE Append(acc, cur)
    ELSE IF IsWhitespace(Head(s))
         THEN SplitWs(Tail(s), <<>>, IF cur = <<>> THEN acc ELSE Append(acc, cur))
         ELSE SplitWs(Tail(s), Append(cur, Head(s)), acc)

split_whitespace(s) == SplitWs(s, <<>>, <<>>)

\* address.split(':').last(): the text after the last ':', or the whole
\* text when it holds no ':'.  split always yields at least one piece, so
\* `last()` is never None.
RECURSIVE LastSegment(_, _)
LastSegment(s, cur) ==
    IF s = <<>> THEN cur
    ELSE IF Head(s) = 58 THEN LastSegment(Tail(s), <<>>)
         ELSE LastSegment(Tail(s), Append(cur, Head(s)))

split_colon_last(address) == LastSegment(address, <<>>)

\* The decimal digits of u32::MAX, 4294967295.
U32MaxDigits == <<4, 2, 9, 4, 9, 6, 7, 2, 9, 5>>

RECURSIVE StripZeros(_)
StripZeros(d) == IF d # <<>> /\ Head(d) = 0 THEN StripZeros(Tail(d)) ELSE d

\* Lexicographic "at most" on two digit sequences of the same length.
RECURSIVE DigitsLeq(_, _)
DigitsLeq(a, b) ==
    IF a = <<>> THEN TRUE
    ELSE IF Head(a) # Head(b) THEN Head(a) < Head(b)
         ELSE DigitsLeq(Tail(a), Tail(b))

RECURSIVE DigitsValue(_, _)
DigitsValue(d, acc) ==
    IF d = <<>> THEN acc ELSE DigitsValue(Tail(d), 10 * acc + Head(d))

\* str::parse::<u32>: an optional '+', then one or more ASCII digits whose
\* value is at most u32::MAX.  -1 stands for Err.  The overflow test is made
\* on the digits, so that it is exact for every input; the value itself is
\* computed for the inputs of the model, which stay below 2^31.
parse_u32(s) ==
    LET body == IF s # <<>> /\ Head(s) = 43 THEN Tail(s) ELSE s
    IN  IF body = <<>> \/ \E i \in 1..Len(body) : body[i] \notin 48..57
        THEN -1
        ELSE LET d == StripZeros(Vec([i \in 1..Len(body) |-> body[i] - 48]))
             IN  IF Len(d) > 10 \/ (Len(d) = 10 /\ ~DigitsLeq(d, U32MaxDigits))
                 THEN -1
                 ELSE DigitsValue(d, 0)

\* .parse::<u32>().unwrap_or(0)
parse_u32_or_0(s) == LET v == parse_u32(s) IN IF v = -1 THEN 0 ELSE v

\* u32::to_string: the decimal digits, no sign, no leading zero.
RECURSIVE to_string(_)
to_string(n) ==
    IF n < 10 THEN <<48 + n>> ELSE Append(to_string(n \div 10), 48 + (n % 10))

\* str::to_lowercase, on the characters of the model (ASCII letters).
to_lowercase(s) ==
    Vec([i \in 1..Len(s) |-> IF s[i] \in 65..90 THEN s[i] + 32 ELSE s[i]])

\* Ord for str: lexicographic on the characters; a proper prefix is less.
RECURSIVE StrLeq(_, _)
StrLeq(a, b) ==
    IF a = <<>> THEN TRUE
    ELSE IF b = <<>> THEN FALSE
    ELSE IF Head(a) # Head(b) THEN Head(a) < Head(b)
    ELSE StrLeq(Tail(a), Tail(b))

\* [String]::join(sep)
RECURSIVE join(_, _)
join(list, sep) ==
    IF list = <<>> THEN <<>>
    ELSE IF Len(list) = 1 THEN list[1]
    ELSE list[1] \o sep \o join(Tail(list), sep)

\* str::trim
RECURSIVE TrimStart(_)
TrimStart(s) ==
    IF s # <<>> /\ IsWhitespace(Head(s)) THEN TrimStart(Tail(s)) ELSE s

RECURSIVE TrimEnd(_)
TrimEnd(s) ==
    IF s # <<>> /\ IsWhitespace(s[Len(s)])
    THEN TrimEnd(SubSeq(s, 1, Len(s) - 1)) ELSE s

trim(s) == TrimEnd(TrimStart(s))

\* Vec::contains
contains(list, x) == \E i \in 1..Len(list) : list[i] = x


\* The permutations of a finite set: the orders in which a HashMap, whose
\* hasher is seeded at random, may hand out its entries.
Perms(S) ==
    {f \in [1..Cardinality(S) -> S] : \A x \in S : \E i \in DOMAIN f : f[i] = x}

\* slice::sort_by and slice::sort_by_key: a stable sort.  less[i][j] says
\* that the comparison puts s[i] strictly before s[j].  An element goes
\* after every element that is less and after the equal ones before it.
StableSort(s, less) ==
    LET n == Len(s)
        pos(i) == 1 + Cardinality({j \in 1..n : less[j][i]})
                    + Cardinality({j \in 1..(i - 1) : ~less[j][i] /\ ~less[i][j]})
    IN  Vec([k \in 1..n |-> s[CHOOSE i \in 1..n : pos(i) = k]])

-----------------------------------------------------------------------------
(* The environment: the outcomes of the three external commands.           *)

\* One line of lsof -i -P -n: COMMAND PID USER FD TYPE DEVICE SIZE/OFF NODE NAME
LsofLine(name, pidField, address) ==
    name \o <<32>> \o pidField \o <<32, 117, 32, 51, 117, 32, 73, 32, 48, 32, 48, 32>>
         \o <<84, 67, 80, 32>> \o address

Header == <<67, 32, 80, 32, 85, 32, 70, 32, 84, 32, 68, 32, 83, 32, 78, 32, 78>>

\* The lines lsof prints in the model, by what they exercise.
LinePort443   == LsofLine(<<97>>, <<53>>, <<42, 58, 52, 52, 51>>)          \* a 5 *:443
LinePort80    == LsofLine(<<97>>, <<53>>, <<42, 58, 56, 48>>)              \* a 5 *:80
LineUpper     == LsofLine(<<65>>, <<55>>, <<91, 58, 58, 49, 93, 58, 56, 48>>) \* A 7 [::1]:80
LineNoColon   == LsofLine(<<97>>, <<55>>, <<48, 56, 48>>)                  \* a 7 080
LineBadPid    == LsofLine(<<66>>, <<120>>,
                          <<42, 58, 52, 50, 57, 52, 57, 54, 55, 50, 57, 54>>) \* B x *:4294967296
LineEmptyPort == LsofLine(<<97>>, <<53>>, <<42, 58>>)                      \* a 5 *:
LineNamedPort == LsofLine(<<97>>, <<55>>, <<42, 58, 104, 116, 116, 112>>)  \* a 7 *:http
LineShort     == <<97, 32, 55, 32, 84, 67, 80, 9, 32, 42, 58, 56, 48>>     \* a 7 TCP *:80

LineSet ==
    {LinePort443, LinePort80, LineUpper, LineNoColon, LineBadPid,
     LineEmptyPort, LineNamedPort, LineShort}

\* The bodies lsof may print: up to MaxLines lines.
Bodies == UNION {[1..n -> LineSet] : n \in 0..MaxLines}

\* What Command::new("lsof")...output() may yield: Err(e) when the command
\* cannot be started, otherwise an exit status and the lines of stdout.
\* A failing lsof prints nothing the code reads.
LsofOutcomes ==
    {[ran |-> FALSE, success |-> FALSE, stdout |-> <<>>]}
    \cup {[ran |-> TRUE, success |-> FALSE, stdout |-> <<>>]}
    \cup {[ran |-> TRUE, success |-> FALSE, stdout |-> <<Header, LinePort80>>]}
    \cup {[ran |-> TRUE, success |-> TRUE, stdout |-> <<>>]}
    \cup {[ran |-> TRUE, success |-> TRUE, stdout |-> <<Header>> \o b] : b \in Bodies}

\* What Command::new("ps")...output() may yield for one PID: Err(e) when the
\* command cannot be started, otherwise an exit status and stdout.
PsNotRun    == [ran |-> FALSE, success |-> FALSE, stdout |-> <<>>]
PsFailEmpty == [ran |-> TRUE,  success |-> FALSE, stdout |-> <<>>]
PsFailLine  == [ran |-> TRUE,  success |-> FALSE,
                stdout |-> <<117, 32, 49, 32, 50, 32, 99, 10>>]       \* "u 1 2 c\n"
PsThree     == [ran |-> TRUE,  success |-> TRUE,
                stdout |-> <<117, 32, 49, 32, 50, 10>>]               \* "u 1 2\n"
PsC         == [ran |-> TRUE,  success |-> TRUE,
                stdout |-> <<117, 32, 49, 32, 50, 32, 99, 10>>]       \* "u 1 2 c\n"
PsCD        == [ran |-> TRUE,  success |-> TRUE,
                stdout |-> <<118, 32, 32, 51, 32, 52, 32, 99, 32, 32, 100, 10>>]
                                                                      \* "v  3 4 c  d\n"

PsOutcomes == {PsNotRun, PsFailEmpty, PsFailLine, PsThree, PsC, PsCD}

\* The outcomes of ps the model tries for each PID: all of them for PID 5,
\* a working and a failing ps for the others.
PsOutcomesOf(pid) ==
    IF pid = 5 THEN PsOutcomes
    ELSE IF pid = 7 THEN {PsNotRun, PsC, PsCD}
    ELSE {PsFailEmpty, PsC}

\* The PIDs kill_process is called with in the model.
KillPids == {5, 70}

\* What Command::new("kill")...output() may yield.
KillOutcomes ==
    {[ran |-> FALSE, success |-> FALSE, stderr |-> <<>>],
     [ran |-> TRUE,  success |-> TRUE,  stderr |-> <<>>],
     [ran |-> TRUE,  success |-> FALSE, stderr |-> <<110, 111, 10>>]}

\* The text of the io::Error of a command that cannot be started.
IoError == <<69>>

-----------------------------------------------------------------------------
(* list_ports, step by step.  process_map is a function from PID to the    *)
(* 7-tuple of the code, here a record.                                     *)

\* parts.len() < 9
MinFields == 9

\* The entry or_insert makes for a PID met for the first time.
new_entry(process_name) ==
    [name |-> process_name, ports |-> <<>>, protocols |-> <<>>,
     command |-> <<>>, user |-> <<>>, cpu |-> <<>>, mem |-> <<>>]

\* port_str.chars().all(|c| c.is_numeric()): true of the empty text.
port_accepted(port_str) == \A i \in 1..Len(port_str) : IsNumeric(port_str[i])

\* A variant of push_unique that leaves out the contains test.
push_always(list, x) == Append(list, x)

\* if !vec.contains(&x) { vec.push(x) }
push_unique(list, x) == IF contains(list, x) THEN list ELSE Append(list, x)

\* The PID of a line: parts[1].parse::<u32>().unwrap_or(0).
pid_of(parts) == parse_u32_or_0(parts[2])

\* line.split_whitespace().collect(), on every line of the model, computed once.
Parts == [line \in LineSet |-> split_whitespace(line)]

\* One turn of the loop over the lines of lsof.
fold_line(process_map, line) ==
    LET parts == Parts[line]
    IN  IF Len(parts) < MinFields THEN process_map
        ELSE LET process_name == parts[1]
                 pid          == pid_of(parts)
                 protocol     == parts[8]
                 port_str     == split_colon_last(parts[9])
             IN  IF ~port_accepted(port_str) THEN process_map
                 ELSE LET old   == IF pid \in DOMAIN process_map
                                   THEN process_map[pid]
                                   ELSE new_entry(process_name)
                          entry == [old EXCEPT
                                      !.ports = push_unique(@, port_str),
                                      !.protocols = push_unique(@, protocol)]
                      IN  (pid :> entry) @@ process_map

\* for line in stdout.lines().skip(1)
RECURSIVE fold_lines(_, _)
fold_lines(process_map, lines) ==
    IF lines = <<>> THEN process_map
    ELSE fold_lines(fold_line(process_map, Head(lines)), Tail(lines))

parse_lsof(stdout) ==
    fold_lines(<<>>, IF stdout = <<>> THEN <<>> ELSE Tail(stdout))

\* The words of the ps line cut into at most four parts: the first three
\* words, then the remaining words joined by single spaces.
ps_parts(ps_stdout) ==
    LET words == split_whitespace(trim(ps_stdout))
        n     == Len(words)
        first == SubSeq(words, 1, IF n < 3 THEN n ELSE 3)
        current == join(SubSeq(words, 4, n), <<32>>)
    IN  IF current # <<>> THEN Append(first, current) ELSE first

\* ps_parts on every output of the model, computed once.
PsParts == [out \in PsOutcomes |-> ps_parts(out.stdout)]

\* Whether the code leaves the entry of a PID as it is: ps could not be
\* started, or its line has fewer than four parts.  The exit status of ps
\* is not read.
enrich_skipped(ps_out) == ~ps_out.ran \/ Len(PsParts[ps_out]) < 4

\* A variant of enrich that stores the parts it has, without the test on
\* their number.
enrich_partial(entry, ps_out) ==
    IF ~ps_out.ran THEN entry
    ELSE LET parts == PsParts[ps_out]
             at(i) == IF i <= Len(parts) THEN parts[i] ELSE <<>>
         IN  [entry EXCEPT !.user = at(1), !.cpu = at(2),
                           !.mem = at(3), !.command = at(4)]

\* The body of the loop over process_map.iter_mut().
enrich(entry, ps_out) ==
    IF enrich_skipped(ps_out) THEN entry
    ELSE LET parts == PsParts[ps_out]
         IN  [entry EXCEPT !.user = parts[1], !.cpu = parts[2],
                           !.mem = parts[3], !.command = parts[4]]

\* process_map after the loop over process_map.iter_mut().
enrich_all(process_map, ps_out) ==
    Table([pid \in DOMAIN process_map |-> enrich(process_map[pid], ps_out[pid])])

\* A variant of sort_ports that sorts the ports as text.
sort_ports_as_text(port_list) ==
    StableSort(port_list, [i \in DOMAIN port_list |-> [j \in DOMAIN port_list |->
        port_list[i] # port_list[j] /\ StrLeq(port_list[i], port_list[j])]])

\* port_list.sort_by_key(|p| p.parse::<u32>().unwrap_or(0))
sort_ports(port_list) ==
    StableSort(port_list, [i \in DOMAIN port_list |-> [j \in DOMAIN port_list |->
        parse_u32_or_0(port_list[i]) < parse_u32_or_0(port_list[j])]])

\* A variant of group_key that groups by process name alone.
group_key_name_only(entry) == <<entry.name, <<>>>>

\* let key = (process_name.clone(), command.clone())
group_key(entry) == <<entry.name, entry.command>>

\* process_groups after the loop over process_map, which hands out its
\* entries in the order `order`: each key maps to the tuples pushed for it.
group(process_map, order) ==
    LET tuple(pid) == [pid |-> pid, port_list |-> sort_ports(process_map[pid].ports),
                       user |-> process_map[pid].user, cpu |-> process_map[pid].cpu,
                       mem |-> process_map[pid].mem]
        keys == {group_key(process_map[pid]) : pid \in DOMAIN process_map}
    IN  Table([k \in keys |->
           LET mine == SelectSeq(order, LAMBDA pid : group_key(process_map[pid]) = k)
           IN  Vec([i \in 1..Len(mine) |-> tuple(mine[i])])])

\* pid_list.sort_by_key(|(pid, _, _, _, _)| *pid)
sort_pids(pid_list) ==
    StableSort(pid_list, [i \in DOMAIN pid_list |-> [j \in DOMAIN pid_list |->
        pid_list[i].pid < pid_list[j].pid]])

\* The PidInfo of one tuple.
pid_info(t) ==
    [pid |-> t.pid, ports |-> join(t.port_list, <<44, 32>>),
     user |-> t.user, cpu |-> t.cpu, mem |-> t.mem]

\* The PortInfo of one group.
port_info(key, pid_list) ==
    LET sorted == sort_pids(pid_list)
    IN  [process_name |-> key[1], command |-> key[2],
         pids |-> Vec([i \in 1..Len(sorted) |-> pid_info(sorted[i])])]

\* A variant of sort_rows that compares the names as they are.
sort_rows_case_sensitive(rows) ==
    StableSort(rows, [i \in DOMAIN rows |-> [j \in DOMAIN rows |->
        /\ rows[i].process_name # rows[j].process_name
        /\ StrLeq(rows[i].process_name, rows[j].process_name)]])

\* ports.sort_by(|a, b| a.process_name.to_lowercase().cmp(&b.process_name.to_lowercase()))
sort_rows(rows) ==
    LET name == Vec([i \in DOMAIN rows |-> to_lowercase(rows[i].process_name)])
    IN  StableSort(rows, [i \in DOMAIN rows |-> [j \in DOMAIN rows |->
            name[i] # name[j] /\ StrLeq(name[i], name[j])]])

\* The rows returned, process_groups handing out its entries in `order`.
report(process_groups, order) ==
    sort_rows(Vec([i \in 1..Len(order) |->
                     port_info(order[i], process_groups[order[i]])]))

\* The subprocesses started, as argument vectors.
lsof_command == <<"lsof", "-i", "-P", "-n", "-sTCP:LISTEN">>
ps_command(pid) == <<"ps", "-p", to_string(pid), "-o", "user=,%cpu=,%mem=,command=">>
kill_command(pid) == <<"kill", "-9", to_string(pid)>>

Ok(v)  == [ok |-> TRUE, value |-> v]
Err(f, a) == [ok |-> FALSE, value |-> [fmt |-> f, args |-> a]]

\* A variant of lsof_failed that leaves out the test of the exit status.
lsof_failed_unchecked(out) == ~out.ran

\* Whether list_ports returns early: lsof could not be started (the `?`
\* after map_err), or its exit status is not success.
lsof_failed(out) == ~out.ran \/ ~out.success

\* What list_ports returns when lsof cannot be started or fails.
lsof_error(out) ==
    IF ~out.ran THEN Err("Failed to execute lsof: {}", <<IoError>>)
    ELSE Err("lsof command failed", <<>>)

\* The bag of the commands in a set, each started once.
Once(commands) == [c \in commands |-> 1]

\* The subprocesses list_ports starts when lsof cannot be started or fails.
spawned_on_error == Once({lsof_command})

\* The subprocesses list_ports starts when lsof succeeds: lsof, then ps for
\* every key of process_map.
spawned_on_success(pids) == Once({lsof_command} \cup {ps_command(pid) : pid \in pids})

\* A variant of kill_result that leaves out the test of the exit status.
kill_result_unchecked(pid, out) ==
    IF ~out.ran THEN Err("Failed to kill process: {}", <<IoError>>)
    ELSE Ok([fmt |-> "Process {} killed successfully", args |-> <<to_string(pid)>>])

\* What kill_process returns.
kill_result(pid, out) ==
    IF ~out.ran THEN Err("Failed to kill process: {}", <<IoError>>)
    ELSE IF out.success
         THEN Ok([fmt |-> "Process {} killed successfully", args |-> <<to_string(pid)>>])
         ELSE Err("Failed to kill process {}: {}", <<to_string(pid), out.stderr>>)

\* The subprocesses kill_process starts.
kill_spawned(pid, out) == Once({kill_command(pid)})

-----------------------------------------------------------------------------
(* The state machine: the UI calls the two commands in any order, against  *)
(* tool outputs that stay the same.                                        *)

Init ==
    /\ lsof \in LsofOutcomes
    /\ ps = <<>>
    /\ killed = [ran |-> FALSE, success |-> FALSE, stderr |-> <<>>]
    /\ op = "none"
    /\ arg = 0
    /\ ret = Ok(<<>>)
    /\ spawned = Once({})
    /\ listed = <<>>

\* What `listed` becomes when a command starts.
next_listed == IF op = "list_ports" THEN <<ret>> ELSE listed

\* Whether no list_ports has run yet, so that ps has not been asked.
first_list == op # "list_ports" /\ listed = <<>>

\* The ways ps may answer for the PIDs of a set.
ps_choices(pids) ==
    {f \in [pids -> PsOutcomes] : \A pid \in pids : f[pid] \in PsOutcomesOf(pid)}

list_ports ==
    /\ op' = "list_ports"
    /\ arg' = 0
    /\ listed' = next_listed
    /\ UNCHANGED <<lsof, killed>>
    /\ IF lsof_failed(lsof)
       THEN /\ ret' = lsof_error(lsof)
            /\ spawned' = spawned_on_error
            /\ ps' = ps
       ELSE \E parsed \in {parse_lsof(lsof.stdout)} :
                \E ps_out \in IF first_list THEN ps_choices(DOMAIN parsed) ELSE {ps} :
                \E map_order \in Perms(DOMAIN parsed) :
                  /\ ps' = ps_out
                  /\ spawned' = spawned_on_success(DOMAIN parsed)
                  /\ \E process_map \in {enrich_all(parsed, ps_out)} :
                     \E process_groups \in {group(process_map, map_order)} :
                     \E group_order \in Perms(DOMAIN process_groups) :
                         ret' = Ok(report(process_groups, group_order))

kill_process(pid) ==
    \E out \in KillOutcomes :
        /\ op' = "kill_process"
        /\ arg' = pid
        /\ killed' = out
        /\ ret' = kill_result(pid, out)
        /\ spawned' = kill_spawned(pid, out)
        /\ listed' = next_listed
        /\ UNCHANGED <<lsof, ps>>

Next ==
    \/ list_ports
    \/ \E pid \in KillPids : kill_process(pid)

\* list_ports called again and again.
ListSpec == Init /\ [][list_ports]_vars

\* Both commands, called in any order, on the shorter outputs of lsof.
InitKill == Init /\ Len(lsof.stdout) <= 1 + MaxKillLines

Spec == InitKill /\ [][Next]_vars

-----------------------------------------------------------------------------
(* What the properties below speak of.                                     *)

\* The last command was list_ports and it returned Ok(rows).
Listed == op = "list_ports" /\ ret.ok

Rows == ret.value

\* The places <<row, child>> of the PidInfo entries of the report.
Children == UNION {{<<i, j>> : j \in 1..Len(Rows[i].pids)} : i \in 1..Len(Rows)}

Child(c) == Rows[c[1]].pids[c[2]]

\* The lines of lsof after the header, by position.
DataLines == IF lsof.stdout = <<>> THEN <<>> ELSE Tail(lsof.stdout)

\* The trailing segment of the address field of a line with enough fields.
Segment(line) == split_colon_last(Parts[line][9])

\* A line the loop of list_ports folds into process_map.
Accepted(line) ==
    /\ Len(Parts[line]) >= MinFields
    /\ \A i \in 1..Len(Segment(line)) : IsNumeric(Segment(line)[i])

AcceptedLines == {DataLines[i] : i \in {j \in 1..Len(DataLines) : Accepted(DataLines[j])}}

\* The port texts accepted for a PID.
AcceptedPorts(pid) ==
    {Segment(line) : line \in {l \in AcceptedLines : pid_of(Parts[l]) = pid}}

\* The aggregates of the report: process_map after enrichment.
Aggregates == enrich_all(parse_lsof(lsof.stdout), ps)

\* The pieces of a text joined with ", ".
RECURSIVE SplitPorts(_, _, _)
SplitPorts(s, cur, acc) ==
    IF s = <<>> THEN Append(acc, cur)
    ELSE IF Len(s) >= 2 /\ s[1] = 44 /\ s[2] = 32
         THEN SplitPorts(SubSeq(s, 3, Len(s)), <<>>, Append(acc, cur))
         ELSE SplitPorts(Tail(s), Append(cur, Head(s)), acc)

PortsOf(child) == SplitPorts(child.ports, <<>>, <<>>)

\* The value a port text is ordered by.
PortValue(p) == IF parse_u32(p) = -1 THEN 0 ELSE parse_u32(p)

Range(f) == {f[x] : x \in DOMAIN f}

-----------------------------------------------------------------------------
(* C1.  list_ports is deterministic in its inputs: a second call, on the   *)
(* same output of lsof and the same outputs of ps, returns the same rows   *)
(* in the same order, whatever the iteration order of the two HashMaps.    *)
C1_Deterministic ==
    (op = "list_ports" /\ listed # <<>>) => ret = listed[1]

(* C2.  Two PIDs of a report are children of the same row if and only if   *)
(* their aggregates have the same process name and the same command (the   *)
(* empty text when enrichment was skipped).                                *)
C2_Grouping ==
    Listed =>
        \A c1, c2 \in Children :
            LET a1 == Aggregates[Child(c1).pid]
                a2 == Aggregates[Child(c2).pid]
            IN  (c1[1] = c2[1]) <=> (a1.name = a2.name /\ a1.command = a2.command)

\* A report with two PIDs in one row.
C2_Witness ==
    Listed /\ \E i \in 1..Len(Rows) : Len(Rows[i].pids) >= 2

(* C3.  The PIDs of a report are exactly the PIDs that occur in the PID    *)
(* field of the accepted lines: each in one row, once; no two rows have    *)
(* the same (process name, command); no PID absent from the output of lsof *)
(* appears, also when a PID field is no unsigned integer.                  *)
C3_ExactPids ==
    Listed =>
        /\ {Child(c).pid : c \in Children}
              = {parse_u32(Parts[line][2]) : line \in AcceptedLines} \ {-1}
        /\ \A c1, c2 \in Children : Child(c1).pid = Child(c2).pid => c1 = c2
        /\ \A i, j \in 1..Len(Rows) :
              (Rows[i].process_name = Rows[j].process_name
                 /\ Rows[i].command = Rows[j].command) => i = j

(* C4.  The rows of a report are non-decreasing under case-insensitive     *)
(* comparison of the process name, and the children of every row are       *)
(* strictly increasing by PID.                                             *)
C4_Sorted ==
    Listed =>
        /\ \A i, j \in 1..Len(Rows) :
              i < j => StrLeq(to_lowercase(Rows[i].process_name),
                              to_lowercase(Rows[j].process_name))
        /\ \A i \in 1..Len(Rows) : \A j, k \in 1..Len(Rows[i].pids) :
              j < k => Rows[i].pids[j].pid < Rows[i].pids[k].pid

\* A report of two rows whose names are in the other order as plain text.
C4_Witness ==
    /\ Listed
    /\ Len(Rows) = 2
    /\ to_lowercase(Rows[1].process_name) # to_lowercase(Rows[2].process_name)
    /\ ~StrLeq(Rows[1].process_name, Rows[2].process_name)

(* C5.  The ports field of every PID is the ", "-joined list of exactly    *)
(* the distinct port texts accepted for that PID, in an order in which     *)
(* their values are non-decreasing, a text that is no u32 (empty, too      *)
(* large) being kept and ordered as 0.                                     *)
C5_PortsField ==
    Listed =>
        \A c \in Children :
            \E q \in Perms(AcceptedPorts(Child(c).pid)) :
                /\ \A i, j \in 1..Len(q) : i < j => PortValue(q[i]) <= PortValue(q[j])
                /\ Child(c).ports = join(q, <<44, 32>>)

\* A PID with two ports, one of which is no u32.
C5_Witness ==
    Listed /\ \E c \in Children :
        /\ Cardinality(AcceptedPorts(Child(c).pid)) >= 2
        /\ \E p \in AcceptedPorts(Child(c).pid) : parse_u32(p) = -1

(* C6.  The port list of a PID holds no value twice: folding a line whose  *)
(* port the PID already has leaves the aggregates as they are, and a port  *)
(* listed several times for a PID is once in the report.                   *)
C6_NoRepeatedPort ==
    Listed =>
        /\ \A c \in Children : \A i, j \in 1..Len(PortsOf(Child(c))) :
              PortsOf(Child(c))[i] = PortsOf(Child(c))[j] => i = j
        /\ \A line \in AcceptedLines :
              fold_line(parse_lsof(lsof.stdout), line) = parse_lsof(lsof.stdout)

\* lsof lists the same port of the same PID on two lines.
C6_Witness ==
    /\ Listed
    /\ \E i, j \in 1..Len(DataLines) :
          i < j /\ DataLines[i] = DataLines[j] /\ Accepted(DataLines[i])

\* A line C7 says contributes nothing: too few fields, or an address whose
\* text after the last ':' is empty or not all numeric, or without ':'.
C7_Malformed(line) ==
    \/ Len(Parts[line]) < MinFields
    \/ 58 \notin Range(Parts[line][9])
    \/ Segment(line) = <<>>
    \/ \E i \in 1..Len(Segment(line)) : ~IsNumeric(Segment(line)[i])

(* C7.  A line with fewer than 9 fields, or whose address has after its    *)
(* last ':' a text that is not all numeric (an empty text, and an address  *)
(* without ':', included), contributes no record: no aggregate, no port;   *)
(* and list_ports still returns a report, built from the other lines.      *)
C7_MalformedIgnored ==
    (op = "list_ports" /\ ~lsof_failed(lsof)) =>
        /\ ret.ok
        /\ \A c \in Children : \A p \in Range(PortsOf(Child(c))) :
              \E i \in 1..Len(DataLines) :
                  /\ ~C7_Malformed(DataLines[i])
                  /\ pid_of(Parts[DataLines[i]]) = Child(c).pid
                  /\ Segment(DataLines[i]) = p

\* The C7 statement fails on an address whose text after the last ':' is
\* empty, and on one without ':' that is all digits.

\* The ports field of a child is right: the accepted ports of its PID, each
\* once, by non-decreasing value.
PortsRight(child) ==
    \E q \in Perms(AcceptedPorts(child.pid)) :
        /\ \A i, j \in 1..Len(q) : i < j => PortValue(q[i]) <= PortValue(q[j])
        /\ child.ports = join(q, <<44, 32>>)

\* The entries of a report: every PidInfo with the name and command of its row.
Entries(rows) ==
    UNION {{[process_name |-> rows[i].process_name, command |-> rows[i].command,
             info |-> rows[i].pids[j]] : j \in 1..Len(rows[i].pids)} :
           i \in 1..Len(rows)}

\* The rows list_ports returns when ps answers as ps_out, for one iteration
\* order of the two maps.
RowsWith(ps_out) ==
    LET process_map    == enrich_all(parse_lsof(lsof.stdout), ps_out)
        process_groups == group(process_map, CHOOSE o \in Perms(DOMAIN process_map) : TRUE)
    IN  report(process_groups, CHOOSE o \in Perms(DOMAIN process_groups) : TRUE)

\* The words of the output of ps.
Tokens(ps_out) == split_whitespace(ps_out.stdout)

\* The outcomes of ps on which enrichment is skipped, as C8 lists them: ps
\* cannot be started, fails, prints nothing, or prints fewer than four tokens.
C8_SkippedAsClaimed ==
    {o \in PsOutcomes : \/ ~o.ran
                        \/ ~o.success
                        \/ o.stdout = <<>>
                        \/ Len(Tokens(o)) < 4}

\* The outcomes of ps on which enrichment is skipped, as the code has it:
\* ps cannot be started, or prints fewer than four tokens (none, when it
\* prints nothing), whatever its exit status.
C8_Skipped == {o \in PsOutcomes : ~o.ran \/ Len(Tokens(o)) < 4}

\* C8 for a reading of "enrichment is skipped": the set `skipped` of the
\* outcomes of ps on which it is.
C8_Statement(skipped) ==
    (op = "list_ports" /\ ~lsof_failed(lsof)) =>
        /\ ret.ok
        /\ \A x \in DOMAIN ps :
              ps[x] \in skipped =>
                /\ \E c \in Children :
                      /\ Child(c).pid = x
                      /\ Child(c).user = <<>> /\ Child(c).cpu = <<>>
                      /\ Child(c).mem = <<>> /\ Rows[c[1]].command = <<>>
                      /\ PortsRight(Child(c))
                /\ \A o \in PsOutcomes :
                      o \notin skipped =>
                         {e \in Entries(RowsWith([ps EXCEPT ![x] = o])) : e.info.pid # x}
                            = {e \in Entries(Rows) : e.info.pid # x}
        /\ \A c \in Children :
              LET t == Tokens(ps[Child(c).pid])
              IN  \/ /\ Child(c).user = <<>> /\ Child(c).cpu = <<>>
                     /\ Child(c).mem = <<>> /\ Rows[c[1]].command = <<>>
                  \/ /\ ps[Child(c).pid].ran /\ Len(t) >= 4
                     /\ Child(c).user = t[1] /\ Child(c).cpu = t[2]
                     /\ Child(c).mem = t[3]
                     /\ Rows[c[1]].command = join(SubSeq(t, 4, Len(t)), <<32>>)

C9_ListerFailure ==
    op = "list_ports" =>
        /\ ~ret.ok <=> (~lsof.ran \/ ~lsof.success)
        /\ ~ret.ok =>
              /\ DOMAIN spawned = {<<"lsof", "-i", "-P", "-n", "-sTCP:LISTEN">>}
              /\ \A c \in DOMAIN spawned : spawned[c] = 1
              /\ ret.value.fmt \in {"Failed to execute lsof: {}", "lsof command failed"}

\* lsof printed a listing and exited with a failure status.
C9_Witness ==
    /\ op = "list_ports"
    /\ lsof.ran /\ ~lsof.success /\ Len(lsof.stdout) >= 2
    /\ ~ret.ok

\* What holds when kill_process(arg) has returned.
C10_Returned ==
    /\ DOMAIN spawned = {<<"kill", "-9", to_string(arg)>>}
    /\ \A c \in DOMAIN spawned : spawned[c] = 1
    /\ ret.ok <=> (killed.ran /\ killed.success)
    /\ ret.ok => to_string(arg) \in Range(ret.value.args)
    /\ (killed.ran /\ ~killed.success) =>
          /\ to_string(arg) \in Range(ret.value.args)
          /\ killed.stderr \in Range(ret.value.args)

(* C10.  kill_process(pid) starts kill -9 pid once and never again; it     *)
(* returns a confirmation holding the PID exactly when kill exits with     *)
(* success, an error holding the PID and the text of stderr when kill      *)
(* exits otherwise, an error when kill cannot be started; and it changes   *)
(* nothing a later list_ports reads.                                       *)
C10_KillContract ==
    [][op' = "kill_process" =>
          /\ C10_Returned'
          /\ lsof' = lsof /\ ps' = ps
          /\ listed' = next_listed]_vars

\* kill_process(70) has failed after a list_ports.
C10_Witness ==
    /\ op = "kill_process" /\ arg = 70
    /\ killed.ran /\ ~killed.success
    /\ listed # <<>>

====
